---- MODULE Spec2Model ----
(***************************************************************************)
(* Model of backend/lib/youtube_transcript_fetcher.py: the command-line    *)
(* wrapper around youtube-transcript-api.  One process execution is one    *)
(* behaviour: the argument check of __main__, the call of                  *)
(* fetch_transcript (api.fetch, the iteration of the returned transcript,  *)
(* the join, the except chain), json.dumps and print, and the exit.        *)
(*                                                                         *)
(* Strings are TLA+ strings; sys.argv is a sequence whose first element    *)
(* is the script name, so Python's len(sys.argv) is Len(argv) and          *)
(* sys.argv[1] is argv[2].                                                 *)
(***************************************************************************)
EXTENDS Integers, Sequences, FiniteSets, TLC

VARIABLES argv, pc, video_id, transcript_obj, texts, exc, result,
          fetch_calls, stdout, stderr, exit_status

vars == <<argv, pc, video_id, transcript_obj, texts, exc, result,
          fetch_calls, stdout, stderr, exit_status>>

----------------------------------------------------------------------------
(* Bounds of the model *)

\* most positional arguments on the command line
MaxArgs == 2

\* most snippets in a fetched transcript
MaxSnippets == 3

----------------------------------------------------------------------------
(* Values *)

\* Python's None, for the variables that hold a dict or an object
None == [none |-> TRUE]

\* a local name that is not bound yet
Unbound == "<unbound>"

\* the process has not exited yet
Running == -1

\* sys.argv[0]: the script as it was named on the command line
ProgramNames == {"youtube_transcript_fetcher.py", "lib/youtube_transcript_fetcher.py"}

\* video ids given on the command line (opaque, not validated)
VideoIds == {"dQw4w9WgXcQ", "x"}

\* snippet.text values of the fetched transcript
SnippetTexts == {"", "a", "b", "c"}

\* language_code values of a fetched transcript
LanguageCodes == {"en", "de"}

\* sequences over S of length 0..n
RECURSIVE SeqsUpTo(_, _)
SeqsUpTo(S, n) ==
  IF n = 0 THEN {<<>>}
  ELSE LET shorter == SeqsUpTo(S, n - 1)
       IN  shorter \cup {Append(s, x) : s \in {t \in shorter : Len(t) = n - 1}, x \in S}

\* the command lines the process can be started with
ArgvSet == {<<p>> \o a : p \in ProgramNames, a \in SeqsUpTo(VideoIds, MaxArgs)}

\* what api.fetch can return: an iterable of snippets that may or may not
\* have a language_code attribute
FetchedTranscripts ==
  {[snippets |-> s, language_code |-> c] :
      s \in SeqsUpTo(SnippetTexts, MaxSnippets), c \in LanguageCodes}
  \cup {[snippets |-> s] : s \in SeqsUpTo(SnippetTexts, MaxSnippets)}

\* what the library can raise: the three imported exception classes and any
\* other subclass of Exception, each with its own str(e)
Raisable ==
  {[kind |-> k, description |-> d] :
      k \in {"TranscriptsDisabled", "VideoUnavailable", "NoTranscriptFound"},
      d \in {"\nCould not retrieve a transcript for the video!"}}
  \cup {[kind |-> "Exception", description |-> d] :
      d \in {"", "no element found: line 1, column 0",
             "HTTPSConnectionPool(host=\"www.youtube.com\"): Max retries exceeded",
             "Video is unavailable"}}

----------------------------------------------------------------------------
(* Pure functions *)

\* hasattr(obj, name)
HasAttr(obj, name) == name \in DOMAIN obj

RECURSIVE Join_NoSeparator(_, _)
Join_NoSeparator(sep, list) ==
  IF list = <<>> THEN ""
  ELSE IF Len(list) = 1 THEN list[1]
  ELSE Join_NoSeparator(sep, SubSeq(list, 1, Len(list) - 1)) \o list[Len(list)]

\* sep.join(list)
RECURSIVE Join(_, _)
Join(sep, list) ==
  IF list = <<>> THEN ""
  ELSE IF Len(list) = 1 THEN list[1]
  ELSE Join(sep, SubSeq(list, 1, Len(list) - 1)) \o sep \o list[Len(list)]

\* str(e)
Str(e) == e.description

\* the body of a JSON string as json.dumps writes it (ensure_ascii): the
\* quote, the backslash and the newline are escaped
RECURSIVE JsonEscape(_)
JsonEscape(s) ==
  IF s = "" THEN ""
  ELSE LET c == SubSeq(s, 1, 1)
           e == CASE c = "\"" -> "\\\""
                  [] c = "\\" -> "\\\\"
                  [] c = "\n" -> "\\n"
                  [] OTHER    -> c
       IN  e \o JsonEscape(SubSeq(s, 2, Len(s)))

JsonString(s) == "\"" \o JsonEscape(s) \o "\""

\* json.dumps(d) of the dicts the program builds: the keys in insertion
\* order, ", " between items and ": " after a key
JsonDumps(d) ==
  "{\"success\": " \o (IF d.success THEN "true" ELSE "false")
  \o (IF "transcript" \in DOMAIN d
        THEN ", \"transcript\": " \o JsonString(d.transcript) ELSE "")
  \o (IF "language" \in DOMAIN d
        THEN ", \"language\": " \o JsonString(d.language) ELSE "")
  \o (IF "error" \in DOMAIN d
        THEN ", \"error\": " \o JsonString(d.error) ELSE "")
  \o "}"

----------------------------------------------------------------------------
(* fetch_transcript *)

\* the exception leaves fetch_transcript uncaught
Propagate == [propagate |-> TRUE]

\* the classes "except Exception" matches; the library's errors derive from it
ExceptionClasses == {"TranscriptsDisabled", "VideoUnavailable", "NoTranscriptFound", "Exception"}

ExceptHandler_NoCatchAll(e) ==
  IF e.kind = "TranscriptsDisabled"
    THEN [success |-> FALSE, error |-> "Transcripts are disabled for this video"]
  ELSE IF e.kind = "VideoUnavailable"
    THEN [success |-> FALSE, error |-> "Video is unavailable"]
  ELSE IF e.kind = "NoTranscriptFound"
    THEN [success |-> FALSE, error |-> "No transcript found for this video"]
  ELSE Propagate

ExceptHandler_Swapped(e) ==
  IF e.kind = "TranscriptsDisabled"
    THEN [success |-> FALSE, error |-> "Transcripts are disabled for this video"]
  ELSE IF e.kind = "VideoUnavailable"
    THEN [success |-> FALSE, error |-> "No transcript found for this video"]
  ELSE IF e.kind = "NoTranscriptFound"
    THEN [success |-> FALSE, error |-> "Video is unavailable"]
  ELSE IF e.kind \in ExceptionClasses
    THEN [success |-> FALSE, error |-> Str(e)]
  ELSE Propagate

ExceptHandler_Generic(e) ==
  IF e.kind = "TranscriptsDisabled"
    THEN [success |-> FALSE, error |-> "Transcripts are disabled for this video"]
  ELSE IF e.kind = "VideoUnavailable"
    THEN [success |-> FALSE, error |-> "Video is unavailable"]
  ELSE IF e.kind = "NoTranscriptFound"
    THEN [success |-> FALSE, error |-> "No transcript found for this video"]
  ELSE IF e.kind \in ExceptionClasses
    THEN [success |-> FALSE, error |-> "Unknown error"]
  ELSE Propagate

\* the except clauses, tried in order; the dict the matching one returns
ExceptHandler(e) ==
  IF e.kind = "TranscriptsDisabled"
    THEN [success |-> FALSE, error |-> "Transcripts are disabled for this video"]
  ELSE IF e.kind = "VideoUnavailable"
    THEN [success |-> FALSE, error |-> "Video is unavailable"]
  ELSE IF e.kind = "NoTranscriptFound"
    THEN [success |-> FALSE, error |-> "No transcript found for this video"]
  ELSE IF e.kind \in ExceptionClasses
    THEN [success |-> FALSE, error |-> Str(e)]
  ELSE Propagate

\* exception e is raised inside the try block: the matching except clause
\* returns its dict to __main__; an exception no clause matches ends the
\* process with a traceback on standard error and status 1
Raise(e) ==
  /\ exc' = e
  /\ IF ExceptHandler(e) = Propagate
       THEN /\ stderr' = Append(stderr, "Traceback (most recent call last): " \o e.kind)
            /\ exit_status' = 1
            /\ pc' = "exited"
            /\ UNCHANGED result
       ELSE /\ result' = ExceptHandler(e)
            /\ pc' = "print"
            /\ UNCHANGED <<stderr, exit_status>>

Language_AlwaysEn(obj) == "en"

\* the 'language' entry of the success dict
Language(obj) ==
  IF HasAttr(obj, "language_code") THEN obj.language_code ELSE "en"

SuccessResult_RejectEmpty(text, obj) ==
  IF text = ""
    THEN [success |-> FALSE, error |-> "Transcript is empty"]
    ELSE [success |-> TRUE, transcript |-> text, language |-> Language(obj)]

\* the dict returned when nothing was raised
SuccessResult(text, obj) ==
  [success |-> TRUE, transcript |-> text, language |-> Language(obj)]

----------------------------------------------------------------------------
(* The process *)

Init ==
  /\ argv \in ArgvSet
  /\ pc = "main"
  /\ video_id = Unbound
  /\ transcript_obj = None
  /\ texts = <<>>
  /\ exc = None
  /\ result = None
  /\ fetch_calls = 0
  /\ stdout = <<>>
  /\ stderr = <<>>
  /\ exit_status = Running

\* the dict printed for a wrong argument count
UsageResult ==
  [success |-> FALSE, error |-> "Usage: youtube_transcript_fetcher.py <video_id>"]

Main_Usage_ExitZero ==
  /\ pc = "main"
  /\ Len(argv) # 2
  /\ stdout' = Append(stdout, JsonDumps(UsageResult))
  /\ exit_status' = 0
  /\ pc' = "exited"
  /\ UNCHANGED <<argv, video_id, transcript_obj, texts, exc, result, fetch_calls, stderr>>

\* len(sys.argv) != 2: print the usage dict, sys.exit(1)
Main_Usage ==
  /\ pc = "main"
  /\ Len(argv) # 2
  /\ stdout' = Append(stdout, JsonDumps(UsageResult))
  /\ exit_status' = 1
  /\ pc' = "exited"
  /\ UNCHANGED <<argv, video_id, transcript_obj, texts, exc, result, fetch_calls, stderr>>

\* video_id = sys.argv[1]; fetch_transcript(video_id) is entered
Main_Call ==
  /\ pc = "main"
  /\ Len(argv) = 2
  /\ video_id' = argv[2]
  /\ pc' = "fetch"
  /\ UNCHANGED <<argv, transcript_obj, texts, exc, result, fetch_calls, stdout, stderr, exit_status>>

\* api.fetch(video_id, languages=['en']) returns a transcript
ApiFetch_Returns ==
  /\ pc = "fetch"
  /\ fetch_calls' = fetch_calls + 1
  /\ \E t \in FetchedTranscripts : transcript_obj' = t
  /\ texts' = <<>>
  /\ pc' = "iterate"
  /\ UNCHANGED <<argv, video_id, exc, result, stdout, stderr, exit_status>>

ApiFetch_Raises_Retry ==
  /\ pc = "fetch"
  /\ fetch_calls' = fetch_calls + 1
  /\ \E e \in Raisable :
       IF fetch_calls = 0
         THEN /\ exc' = e
              /\ UNCHANGED <<pc, result, stderr, exit_status>>
         ELSE Raise(e)
  /\ UNCHANGED <<argv, video_id, transcript_obj, texts, stdout>>

\* api.fetch(video_id, languages=['en']) raises
ApiFetch_Raises ==
  /\ pc = "fetch"
  /\ fetch_calls' = fetch_calls + 1
  /\ \E e \in Raisable : Raise(e)
  /\ UNCHANGED <<argv, video_id, transcript_obj, texts, stdout>>

\* the list comprehension takes the next snippet and keeps its text
Iterate_Next ==
  /\ pc = "iterate"
  /\ Len(texts) < Len(transcript_obj.snippets)
  /\ texts' = Append(texts, transcript_obj.snippets[Len(texts) + 1])
  /\ UNCHANGED <<argv, pc, video_id, transcript_obj, exc, result, fetch_calls,
                 stdout, stderr, exit_status>>

Iterate_Raises_Partial ==
  /\ pc = "iterate"
  /\ \E e \in Raisable :
       /\ exc' = e
       /\ result' = SuccessResult(Join(" ", texts), transcript_obj)
       /\ pc' = "print"
  /\ UNCHANGED <<argv, video_id, transcript_obj, texts, fetch_calls, stdout,
                 stderr, exit_status>>

\* the iteration of the transcript raises, before or after any snippet
Iterate_Raises ==
  /\ pc = "iterate"
  /\ \E e \in Raisable : Raise(e)
  /\ UNCHANGED <<argv, video_id, transcript_obj, texts, fetch_calls, stdout>>

\* the iteration is exhausted: join the texts, return the success dict
Return_Success ==
  /\ pc = "iterate"
  /\ Len(texts) = Len(transcript_obj.snippets)
  /\ result' = SuccessResult(Join(" ", texts), transcript_obj)
  /\ pc' = "print"
  /\ UNCHANGED <<argv, video_id, transcript_obj, texts, exc, fetch_calls,
                 stdout, stderr, exit_status>>

Print_Result_Twice ==
  /\ pc = "print"
  /\ stdout' = stdout \o <<JsonDumps(result), JsonDumps(result)>>
  /\ exit_status' = 0
  /\ pc' = "exited"
  /\ UNCHANGED <<argv, video_id, transcript_obj, texts, exc, result, fetch_calls, stderr>>

\* print(json.dumps(result)); the script ends, exit status 0
Print_Result ==
  /\ pc = "print"
  /\ stdout' = Append(stdout, JsonDumps(result))
  /\ exit_status' = 0
  /\ pc' = "exited"
  /\ UNCHANGED <<argv, video_id, transcript_obj, texts, exc, result, fetch_calls, stderr>>

Next ==
  \/ Main_Usage
  \/ Main_Call
  \/ ApiFetch_Returns
  \/ ApiFetch_Raises
  \/ Iterate_Next
  \/ Iterate_Raises
  \/ Return_Success
  \/ Print_Result

Spec == Init /\ [][Next]_vars

----------------------------------------------------------------------------
(* Properties *)

\* the process has exited
Exited == pc = "exited"

\* fetch_transcript has returned a dict
Returned == result # None

\* api.fetch returned and the iteration ran to its end without a raise
RetrievalSucceeded == transcript_obj # None /\ exc = None /\ Returned

\* the fixed error text of each of the three distinguished failure kinds
FixedText(kind) ==
  CASE kind = "TranscriptsDisabled" -> "Transcripts are disabled for this video"
    [] kind = "VideoUnavailable"    -> "Video is unavailable"
    [] kind = "NoTranscriptFound"   -> "No transcript found for this video"

Distinguished == {"TranscriptsDisabled", "VideoUnavailable", "NoTranscriptFound"}

\* C1: started with exactly one positional argument, the process exits with
\* status 0 whatever the fetch did: a failure raised by api.fetch or by the
\* iteration has become a failure dict, which is what was printed, and
\* nothing went to standard error.
C1_OneArgumentExitsZero ==
  /\ (Len(argv) = 2) => exit_status \in {Running, 0}
  /\ (Exited /\ Len(argv) = 2) =>
        /\ exit_status = 0
        /\ stderr = <<>>
        /\ Returned
        /\ (exc # None) => (result.success = FALSE /\ "error" \in DOMAIN result)

\* C1 witness: one argument, the iteration raised after a snippet had been
\* taken, and the process has exited with status 0.
C1_Witness ==
  /\ Exited /\ Len(argv) = 2 /\ exit_status = 0
  /\ exc # None /\ transcript_obj # None /\ Len(texts) >= 1

\* C2 as stated: with an argument count other than one the output is the
\* object whose error is "Usage: <program-name> <videoId>", the program name
\* being the script's name or the name it was started under, and the exit
\* status is 1.
C2_UsageAsStated ==
  (Exited /\ Len(argv) # 2) =>
     /\ exit_status = 1
     /\ \E p \in ProgramNames \cup {argv[1]} :
          stdout = <<"{\"success\": false, \"error\": \"Usage: " \o p \o " <videoId>\"}">>

\* C2 amended: with an argument count other than one the output is exactly
\* {"success": false, "error": "Usage: youtube_transcript_fetcher.py <video_id>"}
\* whatever name the script was started under, nothing is fetched, and the
\* exit status is 1.
C2_UsageMessage ==
  (Exited /\ Len(argv) # 2) =>
     /\ exit_status = 1
     /\ stdout = <<"{\"success\": false, \"error\": \"Usage: youtube_transcript_fetcher.py <video_id>\"}">>
     /\ fetch_calls = 0

\* C2 witness: two positional arguments, started under another path.
C2_Witness ==
  /\ Exited /\ Len(argv) = 3 /\ argv[1] = "lib/youtube_transcript_fetcher.py"
  /\ exit_status = 1 /\ Len(stdout) = 1

\* C3: a failure of one of the three distinguished kinds gives the failure
\* dict with that kind's fixed text, never its own description and never
\* another kind's text, and that is the error printed.
C3_FixedMessages ==
  (exc # None /\ exc.kind \in Distinguished) =>
     /\ result = [success |-> FALSE, error |-> FixedText(exc.kind)]
     /\ \A k \in Distinguished \ {exc.kind} : result.error # FixedText(k)
     /\ Exited => stdout = <<"{\"success\": false, \"error\": \"" \o FixedText(exc.kind) \o "\"}">>

\* C3 witness: no-transcript-found, raised for video id "x", printed.
C3_Witness ==
  /\ Exited /\ video_id = "x"
  /\ exc # None /\ exc.kind = "NoTranscriptFound"
  /\ stdout = <<"{\"success\": false, \"error\": \"No transcript found for this video\"}">>

\* C4: a failure of any other kind gives the failure dict whose error is the
\* failure's own description, unchanged.
C4_OtherFailureVerbatim ==
  (exc # None /\ exc.kind \notin Distinguished) =>
     result = [success |-> FALSE, error |-> exc.description]

\* C4 witness: a connection error raised by the fetch call itself.
C4_Witness ==
  /\ exc # None /\ exc.kind = "Exception" /\ transcript_obj = None
  /\ exc.description = "HTTPSConnectionPool(host=\"www.youtube.com\"): Max retries exceeded"
  /\ Returned /\ result.error = exc.description

\* where segment i starts in the joined text: after the earlier segments and
\* one separator for each of them
RECURSIVE SegmentStart(_, _)
SegmentStart(segs, i) ==
  IF i = 1 THEN 1 ELSE SegmentStart(segs, i - 1) + Len(segs[i - 1]) + 1

\* C5: on success the text consists of the segments' texts at consecutive
\* positions in the order of the retrieval, each once, with exactly one space
\* between neighbours and nothing else.
C5_SpaceJoinedInOrder ==
  (RetrievalSucceeded /\ result.success) =>
     LET segs == transcript_obj.snippets
         n    == Len(segs)
         t    == result.transcript
     IN  /\ n = 0 => t = ""
         /\ n > 0 => Len(t) = SegmentStart(segs, n) + Len(segs[n]) - 1
         /\ \A i \in 1..n :
              /\ SubSeq(t, SegmentStart(segs, i), SegmentStart(segs, i) + Len(segs[i]) - 1) = segs[i]
              /\ i < n => SubSeq(t, SegmentStart(segs, i) + Len(segs[i]),
                                    SegmentStart(segs, i) + Len(segs[i])) = " "

\* C5 witness: segments a, b, c give "a b c".
C5_Witness ==
  /\ RetrievalSucceeded /\ result.success
  /\ transcript_obj.snippets = <<"a", "b", "c">>
  /\ result.transcript = "a b c"

\* C6 as stated: a successful retrieval of an English transcript gives
\* Success with a non-empty text and a non-empty language code.
C6_SuccessNonEmptyAsStated ==
  (RetrievalSucceeded /\ Language(transcript_obj) = "en") =>
     /\ result.success
     /\ result.transcript # ""
     /\ result.language # ""

\* C6 amended: a successful retrieval gives Success with a non-empty language
\* code, and a text that is empty exactly when the retrieval yielded no
\* segment or a single segment with empty text.
C6_SuccessTextEmptiness ==
  RetrievalSucceeded =>
     /\ result.success
     /\ result.language # ""
     /\ (result.transcript = "") <=> (transcript_obj.snippets \in {<<>>, <<"">>})

\* C6 witness: an English transcript without segments is printed as a
\* success with empty text.
C6_Witness ==
  /\ Exited /\ RetrievalSucceeded
  /\ transcript_obj = [snippets |-> <<>>, language_code |-> "en"]
  /\ stdout = <<"{\"success\": true, \"transcript\": \"\", \"language\": \"en\"}">>

\* C7 as stated: the reported language is the track's when the transcript
\* exposes one, and is "en" exactly when it exposes none.
C7_LanguageAsStated ==
  (RetrievalSucceeded /\ result.success) =>
     /\ HasAttr(transcript_obj, "language_code") => result.language = transcript_obj.language_code
     /\ (result.language = "en") <=> ~HasAttr(transcript_obj, "language_code")

\* C7 amended: the reported language is the track's when the transcript
\* exposes one and "en" when it exposes none; a reported "en" therefore comes
\* from a transcript that exposes none or exposes "en" itself.
C7_LanguageOrDefault ==
  (RetrievalSucceeded /\ result.success) =>
     /\ HasAttr(transcript_obj, "language_code") => result.language = transcript_obj.language_code
     /\ ~HasAttr(transcript_obj, "language_code") => result.language = "en"
     /\ (result.language = "en") =>
           \/ ~HasAttr(transcript_obj, "language_code")
           \/ transcript_obj.language_code = "en"

\* C7 witness: a transcript that exposes "de" is reported as "de".
C7_Witness ==
  /\ RetrievalSucceeded /\ result.success
  /\ HasAttr(transcript_obj, "language_code")
  /\ transcript_obj.language_code = "de" /\ result.language = "de"

\* C8: api.fetch is called at most once; once a failure was raised the
\* function has returned its failure dict, nothing is fetched again, and that
\* dict is what is printed.
C8_NoRetry ==
  /\ fetch_calls <= 1
  /\ (exc # None) =>
        /\ pc \in {"print", "exited"}
        /\ Returned /\ result.success = FALSE
        /\ Exited => stdout = <<"{\"success\": false, \"error\": " \o JsonString(result.error) \o "}">>

\* C8 witness: the fetch call itself failed, was made once, and the process
\* has exited.
C8_Witness ==
  /\ Exited /\ exc # None /\ transcript_obj = None /\ fetch_calls = 1
  /\ Returned /\ result.success = FALSE

\* the error text an exited execution has to report, "" when it has none
ErrorDetail ==
  IF Len(argv) # 2 THEN "Usage: youtube_transcript_fetcher.py <video_id>"
  ELSE IF exc = None THEN ""
  ELSE IF exc.kind \in Distinguished THEN FixedText(exc.kind)
  ELSE exc.description

\* C9: nothing is written before the end, and an exited process has written
\* exactly one line, a JSON object that starts with the success member, and
\* nothing to standard error; a failure's text is that object's error
\* member.
C9_OneJsonObject ==
  /\ ~Exited => (stdout = <<>> /\ stderr = <<>>)
  /\ Exited =>
        /\ Len(stdout) = 1
        /\ stderr = <<>>
        /\ SubSeq(stdout[1], 1, 12) = "{\"success\": "
        /\ SubSeq(stdout[1], Len(stdout[1]), Len(stdout[1])) = "}"
        /\ (Len(argv) # 2 \/ exc # None) =>
              stdout[1] = "{\"success\": false, \"error\": " \o JsonString(ErrorDetail) \o "}"

\* C9 witness: a successful fetch, printed as one object.
C9_Witness ==
  /\ Exited /\ Len(argv) = 2 /\ exc = None /\ Returned /\ result.success
  /\ Len(stdout) = 1 /\ exit_status = 0

\* C10: a dict returned by fetch_transcript has success, transcript and
\* language and no error, or success false and error and nothing else; after
\* a raise, also one during the iteration, it is of the second shape.
C10_ResultShape ==
  Returned =>
     /\ \/ (result.success = TRUE /\ DOMAIN result = {"success", "transcript", "language"})
        \/ (result.success = FALSE /\ DOMAIN result = {"success", "error"})
     /\ (exc # None) => (result.success = FALSE /\ DOMAIN result = {"success", "error"})

\* C10 witness: the iteration raised after two snippets had been taken and
\* the dict returned carries only the error.
C10_Witness ==
  /\ pc = "print" /\ exc # None /\ transcript_obj # None /\ Len(texts) = 2
  /\ Returned /\ result.success = FALSE /\ DOMAIN result = {"success", "error"}

====
